---------------------------- MODULE Spec2Model ----------------------------
(***************************************************************************)
(* A model of sftp.py: the SFTP helper that resolves connection details    *)
(* (explicit user + key, or the ssh config with a default-key fallback),   *)
(* opens a paramiko transport and forwards file operations to the SFTP     *)
(* client derived from it.                                                 *)
(*                                                                         *)
(* Strings are sequences of tokens: " " is white space, "~" the home       *)
(* shorthand, "/" the path separator, anything else a name.  An optional   *)
(* string (a Python value that may be None) is [some, s].                  *)
(***************************************************************************)
EXTENDS Integers, Sequences, FiniteSets, TLC

VARIABLES
    host,            \* self.host
    pkey,            \* self.pkey            (optional string)
    port,            \* self.port
    user,            \* self.user            (optional string)
    ssh_config_path, \* self.ssh_config_path
    ssh_config,      \* self.ssh_config      (None, or the looked-up entry)
    transport,       \* self.transport       (0 is None, else a transport id)
    sftp,            \* self.sftp            (0 is None, else the transport id
                     \*                       the client was derived from)
    cfgFile,         \* the file at ssh_config_path: absent, or the entry
                     \* lookup(host) yields
    sshHome,         \* ~/.ssh: whether it exists, and its listing
    keyfiles,        \* what each key file holds
    transports,      \* every paramiko.Transport the instance has opened
    scope,           \* position of the caller's `with` block
    last,            \* what the last handler did and how it ended
    bulk,            \* the last get_files / upload_files call: its
                     \* arguments, the client calls it made, how it ended
    fd               \* the remote file of the caller's open_file block

vars == <<host, pkey, port, user, ssh_config_path, ssh_config, transport, sftp,
          cfgFile, sshHome, keyfiles, transports, scope, last, bulk, fd>>

spec_fields == <<host, pkey, port, user, ssh_config_path>>
env_vars == <<cfgFile, sshHome, keyfiles>>
io_vars == <<bulk, fd>>

-----------------------------------------------------------------------------
(* Python values *)

NoneStr == [some |-> FALSE, s |-> <<>>]
Some(str) == [some |-> TRUE, s |-> str]

\* Python truthiness of an optional string: None and '' are false.
Truthy(o) == o.some /\ o.s # <<>>

\* a or b
PyOr(a, b) == IF Truthy(a) THEN a ELSE b

NoPort == [some |-> FALSE, n |-> 0]
SomePort(n) == [some |-> TRUE, n |-> n]

\* str.strip()
RECURSIVE LStrip(_)
LStrip(str) == IF str # <<>> /\ Head(str) = " " THEN LStrip(Tail(str)) ELSE str

RECURSIVE RStrip(_)
RStrip(str) ==
    IF str # <<>> /\ str[Len(str)] = " "
    THEN RStrip(SubSeq(str, 1, Len(str) - 1))
    ELSE str

Strip(str) == RStrip(LStrip(str))

HomeDir == <<"/", "home", "/", "me">>

\* pwd.getpwnam(name).pw_dir for the users the system knows
PwdUsers == {"root"}
PwdHome(name) == <<"/", name>>

\* os.path.expanduser: "~" and "~/..." are the invoking user's home,
\* "~name" and "~name/..." the home of a user the system knows; anything
\* else is left as it is.
ExpandUser(str) ==
    IF str = <<>> \/ Head(str) # "~" THEN str
    ELSE IF Len(str) = 1 \/ str[2] = "/" THEN HomeDir \o Tail(str)
    ELSE IF str[2] \in PwdUsers /\ (Len(str) = 2 \/ str[3] = "/")
    THEN PwdHome(str[2]) \o SubSeq(str, 3, Len(str))
    ELSE str

\* os.path.join(a, b)
PathJoin(a, b) ==
    IF b # <<>> /\ Head(b) = "/" THEN b
    ELSE IF a = <<>> \/ a[Len(a)] = "/" THEN a \o b
    ELSE a \o <<"/">> \o b

SshHomePath == ExpandUser(<<"~", "/", ".ssh">>)
DefaultConfigPath == PathJoin(SshHomePath, <<"config">>)
DefaultPort == 22
OsUser == <<"sys_user">>

Range(f) == {f[i] : i \in DOMAIN f}

-----------------------------------------------------------------------------
(* Key material and the paramiko key decoders *)

NoKey == [kind |-> "None", file |-> <<>>]
RSA(path) == [kind |-> "RSA", file |-> path]
DSS(path) == [kind |-> "DSS", file |-> path]

FileKinds == {"rsa", "dss", "garbage", "unreadable", "missing"}

\* What the file at path holds; a path nothing is stored under is missing.
FileKind(path) == IF path \in DOMAIN keyfiles THEN keyfiles[path] ELSE "missing"

\* paramiko.RSAKey.from_private_key_file(path): a key object built from no
\* file at all is an SSHException, a file that cannot be read an IOError, a
\* file that is not an RSA key an SSHException.
RSAKey_from_private_key_file(path) ==
    IF ~path.some THEN [exc |-> "SSHException", key |-> NoKey]
    ELSE CASE FileKind(path.s) = "rsa" -> [exc |-> "none", key |-> RSA(path.s)]
           [] FileKind(path.s) \in {"dss", "garbage"} ->
                  [exc |-> "SSHException", key |-> NoKey]
           [] OTHER -> [exc |-> "IOError", key |-> NoKey]

\* paramiko.DSSKey.from_private_key_file(path)
DSSKey_from_private_key_file(path) ==
    IF ~path.some THEN [exc |-> "SSHException", key |-> NoKey]
    ELSE CASE FileKind(path.s) = "dss" -> [exc |-> "none", key |-> DSS(path.s)]
           [] FileKind(path.s) \in {"rsa", "garbage"} ->
                  [exc |-> "SSHException", key |-> NoKey]
           [] OTHER -> [exc |-> "IOError", key |-> NoKey]

\* A mutant of KeyPath: the path is expanded as given.
KeyPath_Unstripped(key_path) ==
    IF key_path.some THEN Some(ExpandUser(key_path.s)) ELSE NoneStr

\* key_path = os.path.expanduser(key_path.strip()) when key_path is not None
KeyPath(key_path) ==
    IF key_path.some THEN Some(ExpandUser(Strip(key_path.s))) ELSE NoneStr

\* A mutant of CaughtForDSS: a bare except, which also retries I/O errors.
CaughtForDSS_Any(exc) == exc # "none"

\* `except SSHException` around the RSA attempt
CaughtForDSS(exc) == exc = "SSHException"

\* SFTP._get_private_key(key_path), called from `site`.  The result carries
\* the call itself: its argument, the decoders it ran in order, and how it
\* ended.
GetPrivateKey(site, key_path) ==
    LET path == KeyPath(key_path)
        rsa == RSAKey_from_private_key_file(path)
        dss == DSSKey_from_private_key_file(path)
        call(decoders, r) ==
            [site |-> site, arg |-> key_path, path |-> path,
             decoders |-> decoders, exc |-> r.exc, key |-> r.key]
    IN  IF rsa.exc = "none" THEN call(<<"RSAKey">>, rsa)
        ELSE IF CaughtForDSS(rsa.exc) THEN call(<<"RSAKey", "DSSKey">>, dss)
        ELSE call(<<"RSAKey">>, rsa)

-----------------------------------------------------------------------------
(* The ssh config *)

NoIdentity == [kind |-> "none", str |-> <<>>, list |-> <<>>]
IdentityStr(p) == [kind |-> "str", str |-> p, list |-> <<>>]
IdentityList(ps) == [kind |-> "list", str |-> <<>>, list |-> ps]

EmptyEntry ==
    [hostname |-> NoneStr, port |-> NoPort, user |-> NoneStr,
     identityfile |-> NoIdentity]

NoConfig == [some |-> FALSE, entry |-> EmptyEntry]
SomeConfig(e) == [some |-> TRUE, entry |-> e]

\* A mutant of GetConfig: a missing file read as an empty configuration.
GetConfig_Lenient == [exc |-> "none", entry |-> cfgFile.entry]

\* SFTP._get_config(): config.lookup(self.host) of the parsed file, or
\* NoSSHConfigFound when no file is at ssh_config_path.
GetConfig ==
    IF cfgFile.some
    THEN [exc |-> "none", entry |-> cfgFile.entry]
    ELSE [exc |-> "NoSSHConfigFound", entry |-> EmptyEntry]

\* A mutant of SelectIdentity: the last item of a list instead of the first.
SelectIdentity_Last(idf) ==
    CASE idf.kind = "none" -> [exc |-> "none", path |-> NoneStr]
      [] idf.kind = "str" -> [exc |-> "none", path |-> Some(idf.str)]
      [] OTHER ->
            IF idf.list = <<>>
            THEN [exc |-> "IndexError", path |-> NoneStr]
            ELSE [exc |-> "none", path |-> Some(idf.list[Len(idf.list)])]

\* private_key_path = self.ssh_config.get('identityfile', None), and its
\* first item when it is a list (indexing an empty list is an IndexError).
SelectIdentity(idf) ==
    CASE idf.kind = "none" -> [exc |-> "none", path |-> NoneStr]
      [] idf.kind = "str" -> [exc |-> "none", path |-> Some(idf.str)]
      [] OTHER ->
            IF idf.list = <<>>
            THEN [exc |-> "IndexError", path |-> NoneStr]
            ELSE [exc |-> "none", path |-> Some(idf.list[1])]

\* A mutant of DefaultKeyNames: id_dsa tried before id_rsa.
DefaultKeyNames_DsaFirst == <<"id_dsa", "id_rsa">>

\* for key in ('id_rsa', 'id_dsa')
DefaultKeyNames == <<"id_rsa", "id_dsa">>

DefaultKeyPath(name) == PathJoin(SshHomePath, <<name>>)

\* The names of DefaultKeyNames, in that order, that os.listdir(ssh_home)
\* returned.
DefaultKeysPresent ==
    SelectSeq(DefaultKeyNames, LAMBDA k : k \in Range(sshHome.listing))

\* The except SSHException branch of get_config_connection_details: look in
\* ~/.ssh, load the first default key that is listed, and stop there.  A
\* failure of that load is not caught; the NoPrivateKeyFound check is made
\* only inside `if os.path.exists(ssh_home)`.
DefaultKeySearch ==
    IF ~sshHome.exists
    THEN [exc |-> "none", key |-> NoKey, keyCalls |-> <<>>, listdirs |-> 0]
    ELSE IF DefaultKeysPresent = <<>>
    THEN [exc |-> "NoPrivateKeyFound", key |-> NoKey, keyCalls |-> <<>>,
          listdirs |-> 1]
    ELSE LET call == GetPrivateKey("default",
                         Some(DefaultKeyPath(DefaultKeysPresent[1])))
         IN  [exc |-> call.exc, key |-> call.key, keyCalls |-> <<call>>,
              listdirs |-> 1]

NoDetails ==
    [hostname |-> <<>>, port |-> NoPort, username |-> <<>>, key |-> NoKey]

\* What a resolution returns or raises, with the calls it made on the way.
Resolution(exc, details, keyCalls, cfgLoads, listdirs, config) ==
    [exc |-> exc, details |-> details, keyCalls |-> keyCalls,
     cfgLoads |-> cfgLoads, listdirs |-> listdirs, config |-> config]

\* A mutant of ConfigFields: the values are used as .get() returned them.
ConfigFields_Unstripped(entry, key) ==
    [hostname |-> IF entry.hostname.some THEN entry.hostname.s ELSE host,
     port |-> IF entry.port.some THEN entry.port ELSE SomePort(port),
     username |-> IF entry.user.some THEN entry.user.s
                  ELSE PyOr(user, Some(OsUser)).s,
     key |-> key]

\* hostname, port and user of the looked-up entry, with their fallbacks;
\* the strip() is applied to whatever .get() returned.
ConfigFields(entry, key) ==
    [hostname |-> Strip(IF entry.hostname.some THEN entry.hostname.s ELSE host),
     port |-> IF entry.port.some THEN entry.port ELSE SomePort(port),
     username |-> Strip(IF entry.user.some THEN entry.user.s
                        ELSE PyOr(user, Some(OsUser)).s),
     key |-> key]

\* get_config_connection_details() from `try:` on: entry is self.ssh_config,
\* first the call self._get_private_key(private_key_path).
KeyForEntry(entry, first) ==
    IF first.exc = "none"
    THEN Resolution("none", ConfigFields(entry, first.key), <<first>>, 1, 0,
                    SomeConfig(entry))
    ELSE IF first.exc # "SSHException"
    THEN Resolution(first.exc, NoDetails, <<first>>, 1, 0, SomeConfig(entry))
    ELSE IF DefaultKeySearch.exc # "none"
    THEN Resolution(DefaultKeySearch.exc, NoDetails,
                    <<first>> \o DefaultKeySearch.keyCalls, 1,
                    DefaultKeySearch.listdirs, SomeConfig(entry))
    ELSE Resolution("none", ConfigFields(entry, DefaultKeySearch.key),
                    <<first>> \o DefaultKeySearch.keyCalls, 1,
                    DefaultKeySearch.listdirs, SomeConfig(entry))

\* get_config_connection_details() after self.ssh_config = self._get_config()
\* returned cfg.
DetailsFrom(cfg, sel) ==
    IF cfg.exc # "none"
    THEN Resolution(cfg.exc, NoDetails, <<>>, 1, 0, ssh_config)
    ELSE IF sel.exc # "none"
    THEN Resolution(sel.exc, NoDetails, <<>>, 1, 0, SomeConfig(cfg.entry))
    ELSE KeyForEntry(cfg.entry, GetPrivateKey("identityfile", sel.path))

\* SFTP.get_config_connection_details()
GetConfigConnectionDetails ==
    DetailsFrom(GetConfig, SelectIdentity(GetConfig.entry.identityfile))

\* A mutant of UseExplicit: either of user and pkey is enough.
UseExplicit_Either == Truthy(user) \/ Truthy(pkey)

\* if self.user and self.pkey
UseExplicit == Truthy(user) /\ Truthy(pkey)

\* A mutant of ExplicitFields: the host is trimmed as on the config path.
ExplicitFields_Stripped(key) ==
    [hostname |-> Strip(host), port |-> SomePort(port), username |-> user.s,
     key |-> key]

\* hostname = self.host, port = self.port, username = self.user
ExplicitFields(key) ==
    [hostname |-> host, port |-> SomePort(port), username |-> user.s,
     key |-> key]

\* A mutant of ExplicitDetails: the explicit branch also stores the entry
\* of the config file in self.ssh_config.
ExplicitDetails_StoresConfig(call) ==
    IF call.exc # "none"
    THEN Resolution(call.exc, NoDetails, <<call>>, 0, 0, cfgFile)
    ELSE Resolution("none", ExplicitFields(call.key), <<call>>, 0, 0, cfgFile)

\* The explicit branch of _get_transport(), call being
\* self._get_private_key(self.pkey).
ExplicitDetails(call) ==
    IF call.exc # "none"
    THEN Resolution(call.exc, NoDetails, <<call>>, 0, 0, ssh_config)
    ELSE Resolution("none", ExplicitFields(call.key), <<call>>, 0, 0,
                    ssh_config)

\* The part of SFTP._get_transport() that picks hostname, port and
\* connect_args.
ResolveConnection ==
    IF UseExplicit
    THEN ExplicitDetails(GetPrivateKey("explicit", pkey))
    ELSE GetConfigConnectionDetails

-----------------------------------------------------------------------------
(* Transports, the SFTP client and the handlers *)

MaxTransports == 2

NetOutcomes == {"ok", "unreachable", "auth_failed"}
ChannelOutcomes == {"ok", "failed"}
Methods == {"listdir", "get", "put", "remove", "rename"}

\* What a call forwarded to the SFTP client can raise: nothing is caught
\* for good on its way to the caller.
FailKinds == {"SSHException", "IOError"}
CallOutcomes == {"none"} \cup FailKinds

NoDispatch == [some |-> FALSE, client |-> 0, method |-> "", open |-> FALSE]

\* What a handler did: the resolution it ran (if it created a session), the
\* transport it opened (0: none) and the call it forwarded to the client.
NoCall ==
    [handler |-> "none", exc |-> "none", created |-> FALSE,
     res |-> Resolution("none", NoDetails, <<>>, 0, 0, NoConfig),
     made |-> 0, dispatch |-> NoDispatch]

\* paramiko.Transport((hostname, port)) followed by
\* transport.connect(username=..., pkey=...)
NewTransport(details) ==
    [hostname |-> details.hostname, port |-> details.port.n,
     username |-> details.username, pkey |-> details.key,
     open |-> TRUE, closes |-> 0]

\* What create_client() leaves behind.
Created(exc, r, ts, t, s, made) ==
    [exc |-> exc, res |-> r, transports |-> ts, transport |-> t, sftp |-> s,
     made |-> made]

\* create_client() once the connection details r are resolved: id is the
\* transport that Transport() would make.  Whether connect() and the SFTP
\* channel succeed is the library's answer (net, chan), with or without key
\* material: connect(pkey=None) is called like any other.
Connect(r, net, chan, id) ==
    IF r.exc # "none" THEN Created(r.exc, r, transports, transport, sftp, 0)
    ELSE IF net = "unreachable"
    THEN Created("SSHException", r, transports, transport, sftp, 0)
    ELSE IF net = "auth_failed"
    THEN Created("SSHException", r,
                 Append(transports, NewTransport(r.details)), transport, sftp,
                 id)
    ELSE IF chan = "failed"
    THEN Created("SSHException", r,
                 Append(transports, NewTransport(r.details)), id, sftp, id)
    ELSE Created("none", r, Append(transports, NewTransport(r.details)), id,
                 id, id)

\* SFTP.create_client(): self.transport = self._get_transport(), then
\* self.sftp = paramiko.SFTPClient.from_transport(self.transport).  net is
\* what the network does to Transport() and connect(), chan what it does to
\* the SFTP channel.
CreateClient(net, chan) ==
    Connect(ResolveConnection, net, chan, Len(transports) + 1)

Installs(c) ==
    /\ ssh_config' = c.res.config
    /\ transports' = c.transports
    /\ transport' = c.transport
    /\ sftp' = c.sftp

\* sut.create_client()
CreateClientCall ==
    /\ Len(transports) < MaxTransports
    /\ \E net \in NetOutcomes, chan \in ChannelOutcomes :
          \E c \in {CreateClient(net, chan)} :
              /\ Installs(c)
              /\ last' = [handler |-> "create_client", exc |-> c.exc,
                          created |-> TRUE, res |-> c.res, made |-> c.made,
                          dispatch |-> NoDispatch]
    /\ UNCHANGED <<spec_fields, env_vars, scope, io_vars>>

\* with sut: ...   (__enter__ is create_client; the block is entered only
\* if it returns)
Enter ==
    /\ scope = "outside"
    /\ Len(transports) < MaxTransports
    /\ \E net \in NetOutcomes, chan \in ChannelOutcomes :
          \E c \in {CreateClient(net, chan)} :
              /\ Installs(c)
              /\ scope' = IF c.exc = "none" THEN "inside" ELSE "outside"
              /\ last' = [handler |-> "__enter__", exc |-> c.exc,
                          created |-> TRUE, res |-> c.res, made |-> c.made,
                          dispatch |-> NoDispatch]
    /\ UNCHANGED <<spec_fields, env_vars, io_vars>>

\* __exit__: self.transport.close(); the fields keep their values.
Exit ==
    /\ scope = "inside"
    /\ transport # 0
    /\ transports' = [transports EXCEPT ![transport].open = FALSE,
                                        ![transport].closes = @ + 1]
    /\ scope' = "outside"
    /\ last' = [NoCall EXCEPT !.handler = "__exit__"]
    /\ UNCHANGED <<spec_fields, env_vars, ssh_config, transport, sftp,
                   io_vars>>

\* sut.get_config_connection_details(): the public method called on its
\* own.  It loads the config whatever user and pkey are, stores the entry
\* in self.ssh_config (line 84, skipped when _get_config raises) and
\* returns or raises; no transport is made.
GetConfigConnectionDetailsCall ==
    /\ \E r \in {GetConfigConnectionDetails} :
          /\ ssh_config' = r.config
          /\ last' = [handler |-> "get_config_connection_details",
                      exc |-> r.exc, created |-> FALSE, res |-> r,
                      made |-> 0, dispatch |-> NoDispatch]
    /\ UNCHANGED <<spec_fields, env_vars, transports, transport, sftp, scope,
                   io_vars>>

\* A mutant of NeedsClient: every call creates a session.
NeedsClient_Always == TRUE

\* if self.transport is None or self.sftp is None
NeedsClient == transport = 0 \/ sftp = 0

\* SFTP.client(method, args): create the client when there is none, then
\* forward the call to self.sftp.  outcome is what the forwarded call
\* raises; `except SSHException` logs and re-raises, anything else passes
\* through.  A call on a client whose transport is closed raises one of the
\* exceptions.
Forwarded(method, client, ts, outcome) ==
    [handler |-> method, exc |-> outcome,
     created |-> FALSE, res |-> NoCall.res, made |-> 0,
     dispatch |-> [some |-> TRUE, client |-> client, method |-> method,
                   open |-> ts[client].open]]

FileOp(method) ==
    /\ IF NeedsClient
       THEN /\ Len(transports) < MaxTransports
            /\ \E net \in NetOutcomes, chan \in ChannelOutcomes :
                  \E c \in {CreateClient(net, chan)} :
                      /\ Installs(c)
                      /\ IF c.exc # "none"
                         THEN last' = [handler |-> method, exc |-> c.exc,
                                       created |-> TRUE, res |-> c.res,
                                       made |-> c.made,
                                       dispatch |-> NoDispatch]
                         ELSE \E outcome \in CallOutcomes :
                                 last' = [Forwarded(method, c.sftp,
                                                    c.transports, outcome)
                                             EXCEPT !.created = TRUE,
                                                    !.res = c.res,
                                                    !.made = c.made]
       ELSE /\ \E outcome \in CallOutcomes :
                  /\ transports[sftp].open \/ outcome # "none"
                  /\ last' = Forwarded(method, sftp, transports, outcome)
            /\ UNCHANGED <<ssh_config, transports, transport, sftp>>
    /\ UNCHANGED <<spec_fields, env_vars, scope, io_vars>>

FileOpCall == \E method \in Methods : FileOp(method)

-----------------------------------------------------------------------------
(* get_files and upload_files *)

\* str.startswith(prefix)
StartsWith(str, prefix) ==
    Len(prefix) <= Len(str) /\ SubSeq(str, 1, Len(prefix)) = prefix

\* str.endswith(suffix)
EndsWith(str, suffix) ==
    /\ Len(suffix) <= Len(str)
    /\ SubSeq(str, Len(str) - Len(suffix) + 1, Len(str)) = suffix

\* os.path.basename(path): what follows the last "/"
RECURSIVE Basename(_)
Basename(path) ==
    IF path = <<>> \/ path[Len(path)] = "/" THEN <<>>
    ELSE Basename(SubSeq(path, 1, Len(path) - 1)) \o <<path[Len(path)]>>

\* os.getcwd()
OsGetcwd == <<"/", "cwd">>

\* self.client(method, args, **kwargs): mode is the mode keyword, "" when
\* the call passes none.
ClientCall(method, args, mode) ==
    [method |-> method, args |-> args, mode |-> mode]

\* A mutant of Matches: both filters have to match.
Matches_And(remote_file, starts_with, ends_with) ==
    /\ Truthy(starts_with) /\ StartsWith(remote_file, starts_with.s)
    /\ Truthy(ends_with) /\ EndsWith(remote_file, ends_with.s)

\* (starts_with and remote_file.startswith(starts_with))
\*     or (ends_with and remote_file.endswith(ends_with))
Matches(remote_file, starts_with, ends_with) ==
    \/ Truthy(starts_with) /\ StartsWith(remote_file, starts_with.s)
    \/ Truthy(ends_with) /\ EndsWith(remote_file, ends_with.s)

\* A mutant of FetchCalls: every file is fetched first, then every file is
\* removed.
FetchCalls_RemoveLast(names, remote_path, local_path, delete_files) ==
    [i \in 1..Len(names) |->
        ClientCall("get", <<PathJoin(remote_path, names[i]),
                            PathJoin(local_path, names[i])>>, "")]
    \o (IF delete_files
        THEN [i \in 1..Len(names) |->
                 ClientCall("remove", <<PathJoin(remote_path, names[i])>>, "")]
        ELSE <<>>)

\* for file_name in remote_files: get_file(remote_file, local_file), then
\* remove_file(remote_file) if delete_files
RECURSIVE FetchCalls(_, _, _, _)
FetchCalls(names, remote_path, local_path, delete_files) ==
    IF names = <<>> THEN <<>>
    ELSE <<ClientCall("get", <<PathJoin(remote_path, Head(names)),
                               PathJoin(local_path, Head(names))>>, "")>>
         \o (IF delete_files
             THEN <<ClientCall("remove",
                               <<PathJoin(remote_path, Head(names))>>, "")>>
             ELSE <<>>)
         \o FetchCalls(Tail(names), remote_path, local_path, delete_files)

\* The client calls of get_files when none of them fails: list_files once,
\* then the loop over the names the filter keeps.  listing is what listdir
\* returns.
GetFilesCalls(remote_path, local_path, delete_files, starts_with, ends_with, listing) ==
    <<ClientCall("listdir", <<remote_path>>, "")>>
    \o FetchCalls(SelectSeq(listing,
                            LAMBDA n : Matches(n, starts_with, ends_with)),
                  remote_path, PyOr(local_path, Some(OsGetcwd)).s, delete_files)

\* A mutant of UploadTarget: the whole local path is joined.
UploadTarget_WholePath(remote_path, local_file) ==
    PathJoin(remote_path, local_file)

\* os.path.join(remote_path, os.path.basename(local_file))
UploadTarget(remote_path, local_file) ==
    PathJoin(remote_path, Basename(local_file))

\* The client calls of upload_files when none of them fails.
UploadCalls(files_list, remote_path) ==
    [i \in 1..Len(files_list) |->
        ClientCall("put", <<files_list[i],
                            UploadTarget(remote_path, files_list[i])>>, "")]

\* A mutant of CallsMade: a failed call is skipped and the loop goes on.
CallsMade_KeepGoing(calls, failAt) == calls

\* The calls a helper gets to make when its call number failAt raises
\* (0: none does): the exception leaves the loop, through the `except
\* paramiko.SSHException: ... raise` of the helper when it is one.
CallsMade(calls, failAt) ==
    IF failAt = 0 THEN calls ELSE SubSeq(calls, 1, failAt)

NoBulk ==
    [handler |-> "none", remote_path |-> <<>>, local_path |-> NoneStr,
     delete_files |-> FALSE, starts_with |-> NoneStr, ends_with |-> NoneStr,
     files_list |-> <<>>, listing |-> <<>>, created |-> FALSE, ops |-> <<>>,
     exc |-> "none"]

\* The helper `call` forwarding `calls` to `client`: each call is logged
\* with the client it went to and the exception it raised.  On a client
\* whose transport is closed the first call raises.
Ran(call, calls, failAt, kind, client, ts) ==
    LET k == IF ts[client].open THEN failAt ELSE 1
        made == CallsMade(calls, k)
    IN  [call EXCEPT
            !.ops = [i \in 1..Len(made) |->
                        [method |-> made[i].method, args |-> made[i].args,
                         mode |-> made[i].mode, client |-> client,
                         exc |-> IF i = k THEN kind ELSE "none"]],
            !.exc = IF k = 0 THEN "none" ELSE kind]

\* A helper running its calls through SFTP.client: the first call creates
\* the session when there is none; a helper with no call to make touches
\* nothing.
BulkRun(call, calls, failAt, kind) ==
    IF calls = <<>>
    THEN /\ bulk' = call
         /\ UNCHANGED <<ssh_config, transports, transport, sftp>>
    ELSE IF NeedsClient
    THEN /\ Len(transports) < MaxTransports
         /\ \E net \in NetOutcomes, chan \in ChannelOutcomes :
               \E c \in {CreateClient(net, chan)} :
                   /\ Installs(c)
                   /\ bulk' =
                        IF c.exc # "none"
                        THEN [call EXCEPT !.created = TRUE, !.exc = c.exc]
                        ELSE Ran([call EXCEPT !.created = TRUE], calls,
                                 failAt, kind, c.sftp, c.transports)
    ELSE /\ bulk' = Ran(call, calls, failAt, kind, sftp, transports)
         /\ UNCHANGED <<ssh_config, transports, transport, sftp>>

\* sut.get_files(remote_path, local_path, delete_files, starts_with,
\*               ends_with)
GetFiles(remote_path, local_path, delete_files, starts_with, ends_with, listing) ==
    \E calls \in {GetFilesCalls(remote_path, local_path, delete_files,
                                starts_with, ends_with, listing)} :
        \E failAt \in 0..Len(calls), kind \in FailKinds :
            BulkRun([NoBulk EXCEPT !.handler = "get_files",
                                   !.remote_path = remote_path,
                                   !.local_path = local_path,
                                   !.delete_files = delete_files,
                                   !.starts_with = starts_with,
                                   !.ends_with = ends_with,
                                   !.listing = listing],
                    calls, failAt, kind)

\* sut.upload_files(files_list, remote_path)
UploadFiles(files_list, remote_path) ==
    \E calls \in {UploadCalls(files_list, remote_path)} :
        \E failAt \in 0..Len(calls), kind \in FailKinds :
            BulkRun([NoBulk EXCEPT !.handler = "upload_files",
                                   !.remote_path = remote_path,
                                   !.files_list = files_list],
                    calls, failAt, kind)

-----------------------------------------------------------------------------
(* open_file *)

NoFd ==
    [state |-> "none", remote_file |-> <<>>, mode |-> "", created |-> FALSE,
     call |-> ClientCall("", <<>>, ""), client |-> 0, closes |-> 0,
     exc |-> "none"]

\* fd = self.client('file', [remote_file], mode='r')
OpenCall(remote_file, mode) == ClientCall("file", <<remote_file>>, "r")

\* A mutant of ClosesOnExit: the close follows the yield with no finally.
ClosesOnExit_NoFinally(raised) == ~raised

\* try: yield fd / finally: fd.close(); raised is whether the body of the
\* caller's with block raised.
ClosesOnExit(raised) == TRUE

\* The file call forwarded to `client`; outcome is what the call raises.
Opened(remote_file, mode, created, client, outcome) ==
    [state |-> IF outcome = "none" THEN "open" ELSE "failed",
     remote_file |-> remote_file, mode |-> mode, created |-> created,
     call |-> OpenCall(remote_file, mode), client |-> client, closes |-> 0,
     exc |-> outcome]

\* with sut.open_file(remote_file, mode) as fd: up to the yield.  When the
\* client call raises, the generator has not reached its try and the with
\* block is not entered.
OpenFile(remote_file, mode) ==
    /\ fd.state # "open"
    /\ IF NeedsClient
       THEN /\ Len(transports) < MaxTransports
            /\ \E net \in NetOutcomes, chan \in ChannelOutcomes :
                  \E c \in {CreateClient(net, chan)} :
                      /\ Installs(c)
                      /\ IF c.exc # "none"
                         THEN fd' = [NoFd EXCEPT !.state = "failed",
                                                 !.remote_file = remote_file,
                                                 !.mode = mode,
                                                 !.created = TRUE,
                                                 !.exc = c.exc]
                         ELSE \E outcome \in CallOutcomes :
                                 fd' = Opened(remote_file, mode, TRUE, c.sftp,
                                              outcome)
       ELSE /\ \E outcome \in CallOutcomes :
                  /\ transports[sftp].open \/ outcome # "none"
                  /\ fd' = Opened(remote_file, mode, FALSE, sftp, outcome)
            /\ UNCHANGED <<ssh_config, transports, transport, sftp>>
    /\ UNCHANGED <<spec_fields, env_vars, scope, last, bulk>>

\* The with block of open_file is left, by its end or by an exception of
\* its body, which goes on to the caller after the generator's finally.
OpenFileLeave ==
    /\ fd.state = "open"
    /\ \E raised \in BOOLEAN :
          fd' = [fd EXCEPT !.state = "left",
                           !.closes = IF ClosesOnExit(raised) THEN @ + 1
                                      ELSE @,
                           !.exc = IF raised THEN "BodyError" ELSE "none"]
    /\ UNCHANGED <<spec_fields, env_vars, ssh_config, transports, transport,
                   sftp, scope, last, bulk>>

-----------------------------------------------------------------------------
(* Inputs *)

KeyArg == <<" ", "~", "/", "key">>
KeyArgUser == <<"~", "root", "/", "key", " ">>
Id1 == <<" ", "~", "/", "id1", " ">>
Id2 == <<"~", "/", ".ssh", "/", "id_rsa">>

PKeyFile == ExpandUser(Strip(KeyArg))
UserKeyFile == ExpandUser(Strip(KeyArgUser))
Id1File == ExpandUser(Strip(Id1))
KeyFilePaths ==
    {PKeyFile, UserKeyFile, Id1File, DefaultKeyPath("id_rsa"),
     DefaultKeyPath("id_dsa")}

DirNames == {"config", "id_rsa", "id_dsa"}
MaxIdentityFiles == 2

SeqsUpTo(S, n) == UNION {[1..k -> S] : k \in 0..n}
IsInjective(f) == \A i, j \in DOMAIN f : f[i] = f[j] => i = j

Listings == {l \in SeqsUpTo(DirNames, Cardinality(DirNames)) : IsInjective(l)}
Homes ==
    {[exists |-> FALSE, listing |-> <<>>]}
        \cup {[exists |-> TRUE, listing |-> l] : l \in Listings}

\* The key files agree with the rest of the environment: a default key is a
\* file exactly when ~/.ssh lists it, and a file that a pkey argument names
\* is only there when that pkey was given.
KeyFilesOf(home, pk) ==
    {f \in [KeyFilePaths -> FileKinds] :
        /\ \A n \in {"id_rsa", "id_dsa"} :
              f[DefaultKeyPath(n)] = "missing" <=> n \notin Range(home.listing)
        /\ pk # Some(KeyArg) => f[PKeyFile] = "missing"
        /\ pk # Some(KeyArgUser) => f[UserKeyFile] = "missing"}

\* ssh_config_path or os.path.join(os.path.expanduser('~/.ssh'), 'config')
CustomConfigPath == <<"/", "etc", "/", "ssh_config">>
ConfigPaths == {DefaultConfigPath, CustomConfigPath}

\* A config file at the default path is a file of the directory ~/.ssh.
EnvAgrees ==
    (ssh_config_path = DefaultConfigPath /\ cfgFile.some) =>
        (sshHome.exists /\ "config" \in Range(sshHome.listing))

Fresh ==
    /\ port = DefaultPort
    /\ ssh_config_path \in ConfigPaths
    /\ EnvAgrees
    /\ ssh_config = NoConfig
    /\ transport = 0
    /\ sftp = 0
    /\ transports = <<>>
    /\ scope = "outside"
    /\ last = NoCall
    /\ bulk = NoBulk
    /\ fd = NoFd

Identities ==
    {NoIdentity, IdentityStr(Id1), IdentityStr(Id2)}
        \cup {IdentityList(l) : l \in SeqsUpTo({Id1, Id2}, MaxIdentityFiles)}

FullEntry(idf) ==
    [hostname |-> Some(<<" ", "some_host">>), port |-> SomePort(456),
     user |-> Some(<<" ", "some_user">>), identityfile |-> idf]

\* Key resolution: every identity-file shape, every ~/.ssh listing, every
\* content of the key files.
InitKeys ==
    /\ host = <<"blah">>
    /\ user = NoneStr
    /\ pkey = NoneStr
    /\ cfgFile \in {NoConfig} \cup {SomeConfig(FullEntry(i)) : i \in Identities}
    /\ sshHome \in Homes
    /\ keyfiles \in KeyFilesOf(sshHome, pkey)
    /\ Fresh

Hosts == {<<"blah">>, <<" ", "blah">>}
Users == {NoneStr, Some(<<>>), Some(<<"bob", " ">>)}
PKeys == {NoneStr, Some(KeyArg)}

FieldEntries ==
    {[hostname |-> h, port |-> p, user |-> u, identityfile |-> i] :
        h \in {NoneStr, Some(<<" ", "some_host">>)},
        p \in {NoPort, SomePort(456)},
        u \in {NoneStr, Some(<<" ", "some_user", " ">>)},
        i \in {NoIdentity, IdentityStr(Id1)}}

SmallHomes ==
    {[exists |-> FALSE, listing |-> <<>>],
     [exists |-> TRUE, listing |-> <<"config", "id_rsa">>]}

\* Field resolution: every combination of constructor arguments and of
\* fields present in the config entry.
InitFields ==
    /\ host \in Hosts
    /\ user \in Users
    /\ pkey \in PKeys \cup {Some(KeyArgUser)}
    /\ cfgFile \in {NoConfig} \cup {SomeConfig(e) : e \in FieldEntries}
    /\ sshHome \in SmallHomes
    /\ keyfiles \in {f \in KeyFilesOf(sshHome, pkey) :
                        /\ f[Id1File] \in {"rsa", "garbage"}
                        /\ f[DefaultKeyPath("id_rsa")] \in {"rsa", "missing"}}
    /\ Fresh

\* One session creation on a new instance, over all the inputs above.
InitResolve == InitKeys \/ InitFields
NextResolve == last.handler = "none" /\ CreateClientCall
SpecResolve == InitResolve /\ [][NextResolve]_vars

\* The helpers: remote names are spelt letter by letter, so that prefixes
\* and suffixes are proper parts of them.
MaxFiles == 2

FileNames == {<<"a">>, <<"b">>, <<"a", "b">>, <<"b", "a">>}
RemoteListings == {l \in SeqsUpTo(FileNames, MaxFiles) : IsInjective(l)}
RemotePaths == {<<"/", "r">>}
LocalPaths == {NoneStr, Some(<<>>), Some(<<"/", "l">>)}
StartFilters == {NoneStr, Some(<<>>), Some(<<"a">>), Some(<<"a", "b">>)}
EndFilters == {NoneStr, Some(<<>>), Some(<<"b">>), Some(<<"a", "b">>)}

LocalFiles == {<<"/", "a", "/", "x">>, <<"/", "b", "/", "x">>, <<"y">>}
FilesLists == SeqsUpTo(LocalFiles, MaxFiles)
UploadPaths == {<<"/", "r">>, <<"/", "r", "/">>}

RemoteFiles == {<<"/", "r", "/", "a">>}
OpenModes == {"r", "w"}

GetFilesCall ==
    /\ \E remote_path \in RemotePaths, local_path \in LocalPaths,
          delete_files \in BOOLEAN, starts_with \in StartFilters,
          ends_with \in EndFilters, listing \in RemoteListings :
          GetFiles(remote_path, local_path, delete_files, starts_with,
                   ends_with, listing)
    /\ UNCHANGED <<spec_fields, env_vars, scope, last, fd>>

UploadFilesCall ==
    /\ \E files_list \in FilesLists, remote_path \in UploadPaths :
          UploadFiles(files_list, remote_path)
    /\ UNCHANGED <<spec_fields, env_vars, scope, last, fd>>

OpenFileCall ==
    \E remote_file \in RemoteFiles, mode \in OpenModes :
        OpenFile(remote_file, mode)

\* The life of one instance.
Init ==
    /\ host = <<" ", "blah">>
    /\ user \in {NoneStr, Some(<<"bob", " ">>)}
    /\ pkey \in PKeys
    /\ ssh_config_path = DefaultConfigPath
    /\ cfgFile \in {NoConfig, SomeConfig(FullEntry(IdentityStr(Id1)))}
    /\ sshHome \in SmallHomes
    /\ keyfiles \in {f \in KeyFilesOf(sshHome, pkey) :
                        /\ f[PKeyFile] \in {"rsa", "garbage", "missing"}
                        /\ pkey.some => f[PKeyFile] # "missing"
                        /\ f[Id1File] = "dss"
                        /\ f[DefaultKeyPath("id_rsa")] \in {"rsa", "missing"}}
    /\ Fresh

Next ==
    \/ CreateClientCall
    \/ Enter
    \/ Exit
    \/ FileOpCall
    \/ OpenFileCall
    \/ OpenFileLeave
    \/ GetConfigConnectionDetailsCall

Spec == Init /\ [][Next]_vars

\* One helper call on an instance that has or has not created its session.
InitFiles ==
    /\ host = <<"blah">>
    /\ user = Some(<<"bob">>)
    /\ pkey = Some(KeyArg)
    /\ cfgFile = NoConfig
    /\ ssh_config_path = DefaultConfigPath
    /\ sshHome = [exists |-> FALSE, listing |-> <<>>]
    /\ keyfiles \in {f \in KeyFilesOf(sshHome, pkey) :
                        /\ f[PKeyFile] \in {"rsa", "missing"}
                        /\ f[Id1File] = "missing"}
    /\ Fresh

NoHelperYet == bulk.handler = "none" /\ fd.state = "none"

NextFiles ==
    \/ NoHelperYet /\ CreateClientCall
    \/ NoHelperYet /\ GetFilesCall
    \/ NoHelperYet /\ UploadFilesCall
    \/ NoHelperYet /\ OpenFileCall
    \/ OpenFileLeave

SpecFiles == InitFiles /\ [][NextFiles]_vars

-----------------------------------------------------------------------------
(* Properties *)

BothSupplied == Truthy(user) /\ Truthy(pkey)
OneSupplied == Truthy(user) # Truthy(pkey)

\* The calls of _get_private_key the last handler made from one call site.
KeyCallsFrom(site) == SelectSeq(last.res.keyCalls, LAMBDA c : c.site = site)

\* The last handler ran get_config_connection_details and found the config.
LookedUp == last.created /\ ~BothSupplied /\ cfgFile.some

\* The except SSHException branch of get_config_connection_details ran.
FellBack ==
    /\ LookedUp
    /\ KeyCallsFrom("identityfile") # <<>>
    /\ KeyCallsFrom("identityfile")[1].exc = "SSHException"

Listed(name) == sshHome.exists /\ name \in Range(sshHome.listing)
Decodes(path) == FileKind(path) \in {"rsa", "dss"}

\* The key the decoders yield for the file at path.
KeyOf(path) == IF FileKind(path) = "rsa" THEN RSA(path) ELSE DSS(path)

\* A step that is a call of get_config_connection_details() by the caller,
\* not the opening of a session or a file operation.
DirectLookupStep ==
    /\ last' # last
    /\ last'.handler = "get_config_connection_details"

\* C1: with user and pkey both given, no handler that opens a session loads
\* or looks up the ssh config (such a step never changes ssh_config, which
\* stays None, config file present or not), the only key it loads is the
\* one at the pkey path, and every transport is opened to exactly host and
\* port and authenticated as exactly user with that key.
C1_ExplicitBypassesConfig ==
    /\ [](BothSupplied =>
            /\ last.handler # "get_config_connection_details" =>
                  /\ last.res.cfgLoads = 0
                  /\ last.res.listdirs = 0
            /\ last.created =>
                  /\ Len(last.res.keyCalls) = 1
                  /\ last.res.keyCalls[1].site = "explicit"
                  /\ last.res.keyCalls[1].arg = pkey
                  /\ last.res.keyCalls[1].path = Some(ExpandUser(Strip(pkey.s)))
            /\ \A i \in DOMAIN transports :
                  /\ transports[i].hostname = host
                  /\ transports[i].port = port
                  /\ transports[i].username = user.s
                  /\ Decodes(ExpandUser(Strip(pkey.s)))
                  /\ transports[i].pkey = KeyOf(ExpandUser(Strip(pkey.s))))
    /\ [][(BothSupplied /\ ~DirectLookupStep) => ssh_config' = ssh_config]_vars

\* C1 happens: a first file operation opens the session from explicit
\* credentials while no ssh config file exists.
C1_Witness ==
    /\ BothSupplied
    /\ ~cfgFile.some
    /\ last.handler = "listdir"
    /\ last.created
    /\ last.exc = "none"
    /\ last.made = 1
    /\ host # Strip(host)

\* C2: no file operation is ever forwarded to the SFTP client of a transport
\* that has been closed; after __exit__ an operation creates a new session
\* first.
C2_NoDispatchOnClosedTransport ==
    last.dispatch.some => last.dispatch.open

\* C3: no identity file in the entry and neither id_rsa nor id_dsa in the
\* default key directory: resolution raises NoPrivateKeyFound and opens no
\* transport.
C3_NoKeyRaisesNoPrivateKeyFound ==
    ( /\ LookedUp
      /\ cfgFile.entry.identityfile = NoIdentity
      /\ ~Listed("id_rsa")
      /\ ~Listed("id_dsa") )
    => (last.exc = "NoPrivateKeyFound" /\ last.made = 0 /\ transports = <<>>)

\* C4: in the fallback, if id_rsa is listed but decodes as neither kind and
\* id_dsa is listed and decodes, the resolved key is the one from id_dsa.
C4_FallbackGoesOnToIdDsa ==
    ( /\ FellBack
      /\ Listed("id_rsa") /\ FileKind(DefaultKeyPath("id_rsa")) = "garbage"
      /\ Listed("id_dsa") /\ Decodes(DefaultKeyPath("id_dsa")) )
    => ( /\ last.res.exc = "none"
         /\ last.res.details.key = KeyOf(DefaultKeyPath("id_dsa")) )

\* C5: when the identity file (if any) fails and every default key file
\* that exists fails to decode, resolution raises NoPrivateKeyFound, never
\* the SSHException of a candidate.
C5_ExhaustedRaisesNoPrivateKeyFound ==
    ( /\ FellBack
      /\ Listed("id_rsa") \/ Listed("id_dsa")
      /\ \A n \in {"id_rsa", "id_dsa"} :
            Listed(n) => FileKind(DefaultKeyPath(n)) = "garbage" )
    => last.res.exc = "NoPrivateKeyFound"

\* C6: the fallback tries id_rsa before id_dsa whatever the order of the
\* directory listing: with id_rsa listed, id_dsa is never loaded before it,
\* and when both are listed and id_rsa decodes, the key is id_rsa's and
\* id_dsa is not read.
C6_IdRsaBeforeIdDsa ==
    FellBack =>
        /\ \A i \in DOMAIN KeyCallsFrom("default") :
              ( /\ Listed("id_rsa")
                /\ KeyCallsFrom("default")[i].path
                       = Some(DefaultKeyPath("id_dsa")) )
              => \E j \in 1..(i - 1) :
                    KeyCallsFrom("default")[j].path
                        = Some(DefaultKeyPath("id_rsa"))
        /\ ( /\ Listed("id_rsa") /\ Listed("id_dsa")
             /\ Decodes(DefaultKeyPath("id_rsa")) )
           => ( /\ last.res.exc = "none"
                /\ last.res.details.key = KeyOf(DefaultKeyPath("id_rsa"))
                /\ \A i \in DOMAIN KeyCallsFrom("default") :
                      KeyCallsFrom("default")[i].path
                          # Some(DefaultKeyPath("id_dsa")) )

\* C6 happens: the listing names id_dsa first, id_rsa decodes and wins.
C6_Witness ==
    /\ FellBack
    /\ sshHome.listing = <<"id_dsa", "id_rsa">>
    /\ Decodes(DefaultKeyPath("id_rsa"))
    /\ Decodes(DefaultKeyPath("id_dsa"))
    /\ last.res.details.key = KeyOf(DefaultKeyPath("id_rsa"))
    /\ last.exc = "none"

\* C7: every _get_private_key call runs the RSA decoder first and the DSS
\* decoder exactly when the RSA decoder raised SSHException; it returns the
\* RSA key if RSA decodes, the DSS key if RSA fails to decode and DSS
\* decodes, and otherwise raises what the DSS decoder raised.
C7_RsaThenDssOnDecodeError ==
    \A i \in DOMAIN last.res.keyCalls :
        LET c == last.res.keyCalls[i]
            rsa == RSAKey_from_private_key_file(c.path)
            dss == DSSKey_from_private_key_file(c.path)
        IN  /\ c.decoders[1] = "RSAKey"
            /\ c.decoders = <<"RSAKey", "DSSKey">> <=> rsa.exc = "SSHException"
            /\ c.decoders # <<"RSAKey", "DSSKey">> => c.decoders = <<"RSAKey">>
            /\ rsa.exc = "none" => (c.exc = "none" /\ c.key = rsa.key)
            /\ (rsa.exc = "SSHException" /\ dss.exc = "none")
                  => (c.exc = "none" /\ c.key = dss.key)
            /\ (rsa.exc = "SSHException" /\ dss.exc # "none")
                  => c.exc = dss.exc
            /\ rsa.exc = "IOError" => c.exc = "IOError"

\* C7 happens: after an identity file that decodes as neither kind, a default
\* key that is not an RSA key but a DSS key yields the DSS key.
C7_Witness ==
    /\ Len(last.res.keyCalls) = 2
    /\ last.res.keyCalls[1].exc = "SSHException"
    /\ last.res.keyCalls[1].path.some
    /\ last.res.keyCalls[2].decoders = <<"RSAKey", "DSSKey">>
    /\ last.res.keyCalls[2].exc = "none"
    /\ last.res.keyCalls[2].key.kind = "DSS"

\* C8: an identity-file list of more than one item is no error; exactly one
\* load is made for it, of its first item, and every other load of the call
\* is a default key of ~/.ssh.
C8_OnlyFirstIdentityFile ==
    ( /\ LookedUp
      /\ cfgFile.entry.identityfile.kind = "list"
      /\ Len(cfgFile.entry.identityfile.list) > 1 )
    => ( /\ last.res.exc # "IndexError"
         /\ Len(KeyCallsFrom("identityfile")) = 1
         /\ last.res.keyCalls[1].site = "identityfile"
         /\ last.res.keyCalls[1].arg = Some(cfgFile.entry.identityfile.list[1])
         /\ \A i \in 2..Len(last.res.keyCalls) :
               /\ last.res.keyCalls[i].site = "default"
               /\ last.res.keyCalls[i].arg.s
                     \in {DefaultKeyPath("id_rsa"), DefaultKeyPath("id_dsa")} )

\* C8 happens: the first of two different identity files fails to decode
\* and the call goes on to ~/.ssh.
C8_Witness ==
    /\ LookedUp
    /\ cfgFile.entry.identityfile.kind = "list"
    /\ Len(cfgFile.entry.identityfile.list) > 1
    /\ cfgFile.entry.identityfile.list[1] # cfgFile.entry.identityfile.list[2]
    /\ Len(last.res.keyCalls) = 2
    /\ last.res.keyCalls[1].exc = "SSHException"

\* The hostname, port and user that C9 states for the config path.
C9_Stated(entry) ==
    [hostname |-> IF entry.hostname.some THEN Strip(entry.hostname.s) ELSE host,
     port |-> IF entry.port.some THEN entry.port.n ELSE port,
     username |-> IF entry.user.some THEN Strip(entry.user.s)
                  ELSE IF Truthy(user) THEN user.s ELSE OsUser]

\* The same with the fallback values trimmed like the config's own.
C9_Trimmed(entry) ==
    [hostname |-> Strip(C9_Stated(entry).hostname),
     port |-> C9_Stated(entry).port,
     username |-> Strip(C9_Stated(entry).username)]

C9_Resolved(fields) ==
    (LookedUp /\ last.res.exc = "none") =>
        /\ last.res.details.hostname = fields.hostname
        /\ last.res.details.port.n = fields.port
        /\ last.res.details.username = fields.username
        /\ last.made # 0 =>
              /\ transports[last.made].hostname = fields.hostname
              /\ transports[last.made].port = fields.port
              /\ transports[last.made].username = fields.username

\* C9 as stated: on the config path hostname is the entry's hostname trimmed
\* or the host alias, port the entry's port or the constructor's, user the
\* entry's user trimmed or the explicit user or the OS user; and that user
\* is the username given to connect.
C9_AsStated == C9_Resolved(C9_Stated(cfgFile.entry))

\* C9 amended: as C9, with the host alias and the explicit user trimmed of
\* surrounding white space as well when they stand in for an absent field.
C9_ConfigFieldsTrimmed == C9_Resolved(C9_Trimmed(cfgFile.entry))

\* C9 happens: the entry has neither hostname nor user, the alias carries
\* white space, and the transport is connected with the fallbacks.
C9_Witness ==
    /\ LookedUp
    /\ ~cfgFile.entry.hostname.some
    /\ ~cfgFile.entry.user.some
    /\ cfgFile.entry.port.some
    /\ host # Strip(host)
    /\ Truthy(user)
    /\ last.exc = "none"
    /\ last.made = 1

\* C10: with exactly one of user and pkey given the config is loaded and
\* looked up, every field the entry has is the one used (the identity file
\* is the first key loaded), and pkey is never loaded through the explicit
\* branch.
C10_OneCredentialUsesConfig ==
    (OneSupplied /\ last.created) =>
        /\ last.res.cfgLoads = 1
        /\ KeyCallsFrom("explicit") = <<>>
        /\ cfgFile.some =>
              /\ ssh_config = SomeConfig(cfgFile.entry)
              /\ cfgFile.entry.identityfile.kind = "str" =>
                    /\ last.res.keyCalls # <<>>
                    /\ last.res.keyCalls[1].arg
                          = Some(cfgFile.entry.identityfile.str)
              /\ last.res.exc = "none" =>
                    /\ cfgFile.entry.hostname.some =>
                          last.res.details.hostname
                              = Strip(cfgFile.entry.hostname.s)
                    /\ cfgFile.entry.port.some =>
                          last.res.details.port = cfgFile.entry.port
                    /\ cfgFile.entry.user.some =>
                          last.res.details.username
                              = Strip(cfgFile.entry.user.s)
                    /\ last.made # 0 =>
                          /\ transports[last.made].pkey = last.res.details.key
                          /\ transports[last.made].username
                                = last.res.details.username

\* C10 happens: only pkey is given, the entry has its own user, hostname
\* and identity file, and the transport is connected with the entry's.
C10_Witness ==
    /\ Truthy(pkey)
    /\ ~Truthy(user)
    /\ LookedUp
    /\ cfgFile.entry.user.some
    /\ cfgFile.entry.hostname.some
    /\ cfgFile.entry.identityfile.kind = "str"
    /\ Decodes(PKeyFile)
    /\ last.exc = "none"
    /\ last.made = 1

\* C11: on the config path, when no file is at the ssh config path, the
\* handler ends with NoSSHConfigFound, which reaches the caller of
\* create_client, of the with statement or of the file operation; no key is
\* decoded, the default key directory is not listed, no transport is opened
\* and nothing is forwarded to a client.
C11_MissingConfigRaises ==
    (last.created /\ ~BothSupplied /\ ~cfgFile.some) =>
        /\ last.exc = "NoSSHConfigFound"
        /\ last.res.keyCalls = <<>>
        /\ last.res.listdirs = 0
        /\ last.made = 0
        /\ ~last.dispatch.some
        /\ transports = <<>>
        /\ transport = 0
        /\ sftp = 0

C11_Witness ==
    /\ last.handler \in Methods
    /\ last.created
    /\ ~BothSupplied
    /\ ~cfgFile.some
    /\ last.exc = "NoSSHConfigFound"

\* C12: get_files with delete_files removes a matched file right after that
\* file's own successful download and before the next download starts: every
\* remove directly follows the successful get of the same remote file, every
\* successful get is directly followed by the remove of its file, and a
\* failed get is the last call of the helper.
C12_RemoveFollowsOwnDownload ==
    (bulk.handler = "get_files" /\ bulk.delete_files) =>
        \A i \in DOMAIN bulk.ops :
            /\ bulk.ops[i].method = "remove" =>
                  /\ i > 1
                  /\ bulk.ops[i - 1].method = "get"
                  /\ bulk.ops[i - 1].exc = "none"
                  /\ bulk.ops[i - 1].args[1] = bulk.ops[i].args[1]
            /\ (bulk.ops[i].method = "get" /\ bulk.ops[i].exc = "none") =>
                  /\ i < Len(bulk.ops)
                  /\ bulk.ops[i + 1].method = "remove"
                  /\ bulk.ops[i + 1].args[1] = bulk.ops[i].args[1]
            /\ (bulk.ops[i].method = "get" /\ bulk.ops[i].exc # "none") =>
                  i = Len(bulk.ops)

C12_Witness ==
    /\ bulk.handler = "get_files"
    /\ bulk.delete_files
    /\ bulk.exc = "none"
    /\ Len(SelectSeq(bulk.ops, LAMBDA o : o.method = "remove")) = 2

\* C13: get_files lists the remote directory once, as its first call, and
\* downloads the listed names n with (starts_with non-empty and n starts
\* with it) or (ends_with non-empty and n ends with it), in listing order,
\* each once, from remote_path/n to local_dir/n: all of them when no call
\* fails, a prefix of them otherwise.  With neither filter nothing is
\* downloaded or removed.
C13_Wanted(n) ==
    \/ bulk.starts_with.some /\ bulk.starts_with.s # <<>>
          /\ StartsWith(n, bulk.starts_with.s)
    \/ bulk.ends_with.some /\ bulk.ends_with.s # <<>>
          /\ EndsWith(n, bulk.ends_with.s)

C13_LocalDir ==
    IF bulk.local_path.some /\ bulk.local_path.s # <<>>
    THEN bulk.local_path.s ELSE OsGetcwd

C13_Gets == SelectSeq(bulk.ops, LAMBDA o : o.method = "get")

C13_ListsOnceAndFetchesMatches ==
    (bulk.handler = "get_files" /\ bulk.ops # <<>>) =>
        \E wanted \in {SelectSeq(bulk.listing, C13_Wanted)} :
            /\ bulk.ops[1].method = "listdir"
            /\ bulk.ops[1].args = <<bulk.remote_path>>
            /\ \A i \in 2..Len(bulk.ops) : bulk.ops[i].method # "listdir"
            /\ Len(C13_Gets) <= Len(wanted)
            /\ bulk.exc = "none" => Len(C13_Gets) = Len(wanted)
            /\ \A j \in DOMAIN C13_Gets :
                  C13_Gets[j].args =
                      <<bulk.remote_path \o <<"/">> \o wanted[j],
                        C13_LocalDir \o <<"/">> \o wanted[j]>>
            /\ (~Truthy(bulk.starts_with) /\ ~Truthy(bulk.ends_with)) =>
                  \A i \in DOMAIN bulk.ops :
                      bulk.ops[i].method \notin {"get", "remove"}

\* Both filters given, a listed name that only the prefix matches is
\* downloaded and a listed name that neither matches is not.
C13_Witness ==
    /\ bulk.handler = "get_files"
    /\ bulk.exc = "none"
    /\ Truthy(bulk.starts_with)
    /\ Truthy(bulk.ends_with)
    /\ Len(bulk.listing) = 2
    /\ Len(C13_Gets) = 1
    /\ \E n \in Range(bulk.listing) :
          /\ StartsWith(n, bulk.starts_with.s)
          /\ ~EndsWith(n, bulk.ends_with.s)
          /\ C13_Gets[1].args[1] = bulk.remote_path \o <<"/">> \o n

\* C14: an upload_files call that ends without an exception has made one put
\* per element of files_list, in list order, each with the local path as
\* given and the destination remote_path joined with the base name of the
\* local path.
C14_OnePutPerFile ==
    (bulk.handler = "upload_files" /\ bulk.exc = "none") =>
        /\ Len(bulk.ops) = Len(bulk.files_list)
        /\ \A i \in DOMAIN bulk.ops :
              /\ bulk.ops[i].method = "put"
              /\ bulk.ops[i].args =
                    <<bulk.files_list[i],
                      PathJoin(bulk.remote_path, Basename(bulk.files_list[i]))>>

C14_Witness ==
    /\ bulk.handler = "upload_files"
    /\ bulk.exc = "none"
    /\ Len(bulk.ops) = 2
    /\ Basename(bulk.files_list[1]) # bulk.files_list[1]

\* C15: when a put of upload_files fails, the helper ends with that same
\* exception, the failed put is its last call, and the calls it made are the
\* puts of the first elements of files_list, each once, with no other call
\* (no remove, no second put) among them.
C15_PutFailureStopsUpload ==
    ( /\ bulk.handler = "upload_files"
      /\ \E i \in DOMAIN bulk.ops : bulk.ops[i].exc # "none" )
    => /\ bulk.exc = bulk.ops[Len(bulk.ops)].exc
       /\ bulk.exc # "none"
       /\ Len(bulk.ops) <= Len(bulk.files_list)
       /\ \A i \in DOMAIN bulk.ops :
             /\ bulk.ops[i].method = "put"
             /\ bulk.ops[i].args[1] = bulk.files_list[i]
             /\ i < Len(bulk.ops) => bulk.ops[i].exc = "none"

C15_Witness ==
    /\ bulk.handler = "upload_files"
    /\ Len(bulk.files_list) = 2
    /\ Len(bulk.ops) = 1
    /\ bulk.ops[1].exc = "SSHException"
    /\ bulk.exc = "SSHException"

\* C16: once a session is there (transport and client of the same, open
\* transport), a file operation creates nothing: it resolves no config and
\* no key, opens no transport, leaves the transport/client pair as it is
\* and is forwarded to that client.  The same holds for the file call of
\* open_file.
C16_SessionCreatedOnceAndReused ==
    [][ ( /\ transport # 0
          /\ sftp = transport
          /\ transports[transport].open )
        => /\ (last' # last /\ last'.handler \in Methods) =>
                 /\ ~last'.created
                 /\ last'.res = NoCall.res
                 /\ last'.made = 0
                 /\ UNCHANGED <<transport, sftp, transports, ssh_config>>
                 /\ last'.dispatch.some
                 /\ last'.dispatch.client = sftp
           /\ (fd' # fd /\ fd'.state \in {"open", "failed"}) =>
                 /\ ~fd'.created
                 /\ fd'.client = sftp
                 /\ UNCHANGED <<transport, sftp, transports, ssh_config>>
      ]_vars

\* A file operation forwarded to the client of the one transport that an
\* earlier handler opened.
C16_Witness ==
    /\ last.handler \in Methods
    /\ ~last.created
    /\ last.dispatch.some
    /\ last.dispatch.client = 1
    /\ last.dispatch.open
    /\ last.exc = "none"
    /\ Len(transports) = 1

\* C17: after the with block is left, every transport the instance has
\* opened is closed, and has been closed once.
C17_EveryTransportClosedOnce ==
    last.handler = "__exit__" =>
        \A i \in DOMAIN transports :
            ~transports[i].open /\ transports[i].closes = 1

\* C18: the remote file of an open_file block is closed exactly once when
\* the block is left, by its end or by an exception of its body; it is not
\* closed before that, and when opening it failed nothing is closed.
C18_HandleClosedOnceOnEveryExit ==
    /\ fd.state = "left" => fd.closes = 1
    /\ fd.state \in {"open", "failed"} => fd.closes = 0

C18_Witness ==
    /\ fd.state = "left"
    /\ fd.exc = "BodyError"
    /\ fd.closes = 1

\* C19: a key load whose argument has white space around it decodes the
\* same file, with the same decoders, and ends the same way as the load of
\* the argument without that white space.
C19_WhitespaceIgnoredInKeyPath ==
    \A i \in DOMAIN last.res.keyCalls :
        \E c \in {last.res.keyCalls[i]} :
            c.arg.some =>
                \E d \in {GetPrivateKey(c.site, Some(Strip(c.arg.s)))} :
                    /\ c.path = Some(ExpandUser(Strip(c.arg.s)))
                    /\ c.path = d.path
                    /\ c.decoders = d.decoders
                    /\ c.exc = d.exc
                    /\ c.key = d.key

\* A key decoded from a path given with white space on both sides.
C19_Witness ==
    \E i \in DOMAIN last.res.keyCalls :
        /\ last.res.keyCalls[i].arg.some
        /\ StartsWith(last.res.keyCalls[i].arg.s, <<" ">>)
        /\ EndsWith(last.res.keyCalls[i].arg.s, <<" ">>)
        /\ last.res.keyCalls[i].key # NoKey

\* C20: on the config path, whenever get_config_connection_details returns,
\* it returns a decoded key, and no transport is connected without one.
C20_ConnectAlwaysHasKey ==
    (last.created /\ ~BothSupplied /\ last.res.exc = "none") =>
        /\ last.res.details.key # NoKey
        /\ \A i \in DOMAIN transports : transports[i].pkey # NoKey

\* C21: a config entry whose identityfile is an empty list is handled like
\* an entry with none: the resolution goes on to the default keys and ends
\* with a decoded key or with NoPrivateKeyFound, with no other exception.
C21_EmptyIdentityListFallsBack ==
    ( /\ LookedUp
      /\ cfgFile.entry.identityfile = IdentityList(<<>>) )
    => \/ last.res.exc = "NoPrivateKeyFound"
       \/ last.res.exc = "none" /\ last.res.details.key # NoKey

\* C22: the file call that open_file forwards to the client carries the
\* mode the caller gave.
C22_OpenFilePassesMode ==
    fd.call.method = "file" => fd.call.mode = fd.mode

\* C23: no step changes host, user, pkey, port or ssh_config_path; a step
\* that changes ssh_config sets it to the entry looked up for the host, and
\* when it is the creation of a session or a file operation it is one on
\* the config path: with user and pkey both given those steps leave
\* ssh_config as it is (None).
C23_SpecFieldsFrameAndConfigField ==
    [][ /\ UNCHANGED <<host, user, pkey, port, ssh_config_path>>
        /\ ssh_config' # ssh_config =>
              /\ ~BothSupplied \/ DirectLookupStep
              /\ cfgFile.some
              /\ ssh_config' = SomeConfig(cfgFile.entry) ]_vars

\* A file operation that created its session on the config path and left
\* the looked-up entry in ssh_config.
C23_Witness ==
    /\ last.handler \in Methods
    /\ last.created
    /\ ~BothSupplied
    /\ ssh_config = SomeConfig(FullEntry(IdentityStr(Id1)))
    /\ transport # 0

=============================================================================
